---------------------------- MODULE Spec2Model ----------------------------
(***************************************************************************)
(* A model of stock_data.py: the interactive loop (__main__), the fetch    *)
(* and normalisation step (fetch_stock_data), the indicator engine         *)
(* (calculate_technical_indicators) and the moving-average traces of       *)
(* plot_stock_data.                                                        *)
(*                                                                         *)
(* Numbers.  A pandas float is modelled as a tagged pair: <<"num", v>>     *)
(* with v a fixed-point integer (the value times Scale, rounded down),     *)
(* <<"nan", 0>> for NaN and <<"inf", s>> for +/- infinity.  Division by    *)
(* zero follows IEEE-754, as numpy does: x/0 is +/-inf for x # 0 and NaN   *)
(* for x = 0.  The sign of a zero is not modelled; no result of the        *)
(* program depends on it.                                                  *)
(*                                                                         *)
(* Frames.  A DataFrame is [index |-> dates, cols |-> name -> column].     *)
(* Only the Close column of the OHLCV frame is modelled; Open, High, Low   *)
(* and Volume are carried through unread by the code modelled here.        *)
(* DataFrames live in a heap (frames) and variables hold references, so    *)
(* that in-place mutation and object identity are visible.                 *)
(*                                                                         *)
(* Dates are day numbers; day 0 is a Monday.                               *)
(***************************************************************************)
EXTENDS Integers, Sequences, FiniteSets, TLC

VARIABLES pc, line, ticker, frames, data, out, fig, exc, loc, fam

vars == <<pc, line, ticker, frames, data, out, fig, exc, loc, fam>>

(***************************************************************************)
(* Bounds of the model.                                                    *)
(***************************************************************************)
\* Fixed-point precision: a value x is held as the integer floor(x * Scale).
Scale == 1000
\* Longest raw series the supplier returns in the main specification.
MaxLen == 22
\* Latest first day of a raw series (0 = Monday ... 5 = Saturday).
MaxStart == 5
\* Longest series of the moving-average specification.
MaxLenMA == 253
\* Price level the generated close series start from.
BasePrice == 40

(***************************************************************************)
(* Program constants.                                                      *)
(***************************************************************************)
RSI_WINDOW == 14
EMA_FAST == 12
EMA_SLOW == 26
EMA_SIGNAL == 9
BB_WINDOW == 20
BB_WIDTH == 2
MA_WINDOWS == {50, 252}

(***************************************************************************)
(* Float arithmetic.                                                       *)
(***************************************************************************)
NaN == <<"nan", 0>>
Num(v) == <<"num", v>>
Inf(s) == <<"inf", s>>
FromInt(k) == Num(k * Scale)

IsNum(x) == x[1] = "num"
IsNaN(x) == x[1] = "nan"
IsInf(x) == x[1] = "inf"

Sign(v) == IF v < 0 THEN -1 ELSE 1

FNeg(x) == IF IsNaN(x) THEN NaN ELSE <<x[1], -x[2]>>

FAdd(x, y) ==
    IF IsNaN(x) \/ IsNaN(y) THEN NaN
    ELSE IF IsInf(x) /\ IsInf(y) THEN (IF x[2] = y[2] THEN x ELSE NaN)
    ELSE IF IsInf(x) THEN x
    ELSE IF IsInf(y) THEN y
    ELSE Num(x[2] + y[2])

FSub(x, y) == FAdd(x, FNeg(y))

FMul(x, y) ==
    IF IsNaN(x) \/ IsNaN(y) THEN NaN
    ELSE IF IsInf(x) \/ IsInf(y)
         THEN (IF x[2] = 0 \/ y[2] = 0 THEN NaN ELSE Inf(Sign(x[2]) * Sign(y[2])))
    ELSE Num((x[2] * y[2]) \div Scale)

FDiv(x, y) ==
    IF IsNaN(x) \/ IsNaN(y) THEN NaN
    ELSE IF IsInf(x) THEN (IF IsInf(y) THEN NaN ELSE Inf(x[2] * Sign(y[2])))
    ELSE IF IsInf(y) THEN Num(0)
    ELSE IF y[2] = 0 THEN (IF x[2] = 0 THEN NaN ELSE Inf(Sign(x[2])))
    ELSE Num((x[2] * Scale) \div y[2])

\* x > 0 and x < 0 as numpy compares: every comparison with NaN is False.
FGtZero(x) == ~IsNaN(x) /\ x[2] > 0
FLtZero(x) == ~IsNaN(x) /\ x[2] < 0

RECURSIVE ISqrtBetween(_, _, _)
ISqrtBetween(v, lo, hi) ==
    IF lo >= hi THEN lo
    ELSE LET mid == (lo + hi + 1) \div 2
         IN  IF mid * mid <= v THEN ISqrtBetween(v, mid, hi)
             ELSE ISqrtBetween(v, lo, mid - 1)

ISqrt(v) == ISqrtBetween(v, 0, IF v < 46340 THEN v ELSE 46340)

FSqrt(x) ==
    IF IsNaN(x) THEN NaN
    ELSE IF IsInf(x) THEN (IF x[2] > 0 THEN x ELSE NaN)
    ELSE IF x[2] < 0 THEN NaN
    ELSE Num(ISqrt(x[2] * Scale))

(***************************************************************************)
(* Series operations (pandas.Series methods used by the program).          *)
(***************************************************************************)
\* A column is held as a tuple of its values (the function f over 1..n,
\* written out).
Series(f) == f \o << >>

\* x[lo] + ... + x[hi].  The halves are added separately, which keeps the
\* evaluation shallow; fixed-point addition is associative, so the order of
\* the additions does not show in the result.
RECURSIVE SumRange(_, _, _)
SumRange(x, lo, hi) ==
    IF lo > hi THEN Num(0)
    ELSE IF lo = hi THEN x[lo]
    ELSE LET mid == (lo + hi) \div 2
         IN  FAdd(SumRange(x, lo, mid), SumRange(x, mid + 1, hi))

\* Division of a sum by an observation count (an integer, not a float).
FDivCount(x, k) == IF IsNum(x) THEN Num(x[2] \div k) ELSE x

\* Series.diff(): the first element has no predecessor and is NaN.
Diff(x) == Series([i \in 1..Len(x) |-> IF i = 1 THEN NaN ELSE FSub(x[i], x[i - 1])])

\* delta.where(delta > 0, 0): keep the element where the condition is True,
\* put 0 elsewhere; for a NaN element the condition is False.
WherePositive(x) == Series([i \in 1..Len(x) |-> IF FGtZero(x[i]) THEN x[i] ELSE Num(0)])
WhereNegative(x) == Series([i \in 1..Len(x) |-> IF FLtZero(x[i]) THEN x[i] ELSE Num(0)])

SNeg(x) == Series([i \in 1..Len(x) |-> FNeg(x[i])])
SAdd(x, y) == Series([i \in 1..Len(x) |-> FAdd(x[i], y[i])])
SSub(x, y) == Series([i \in 1..Len(x) |-> FSub(x[i], y[i])])
SDiv(x, y) == Series([i \in 1..Len(x) |-> FDiv(x[i], y[i])])
SMulScalar(x, k) == Series([i \in 1..Len(x) |-> FMul(x[i], FromInt(k))])
ScalarAddS(k, x) == Series([i \in 1..Len(x) |-> FAdd(FromInt(k), x[i])])
ScalarSubS(k, x) == Series([i \in 1..Len(x) |-> FSub(FromInt(k), x[i])])
ScalarDivS(k, x) == Series([i \in 1..Len(x) |-> FDiv(FromInt(k), x[i])])

\* A plausible slip: rolling(window, min_periods=1), which averages whatever
\* part of the window exists.
RollingMeanMinPeriods1(x, w) ==
    Series([i \in 1..Len(x) |->
              LET lo == IF i < w THEN 1 ELSE i - w + 1
              IN  FDivCount(SumRange(x, lo, i), i - lo + 1)])

\* Series.rolling(window=w).mean(): min_periods defaults to w, so the result
\* is NaN until w observations exist, and NaN while the window holds a NaN.
RollingMean(x, w) ==
    Series([i \in 1..Len(x) |->
              IF i < w THEN NaN ELSE FDivCount(SumRange(x, i - w + 1, i), w)])

\* Sum of squared deviations of x[lo..hi] from m.
RECURSIVE SumSqDev(_, _, _, _)
SumSqDev(x, m, lo, hi) ==
    IF lo > hi THEN Num(0)
    ELSE LET d == FSub(x[hi], m)
         IN  FAdd(SumSqDev(x, m, lo, hi - 1), FMul(d, d))

\* Series.rolling(window=w).std(): the sample standard deviation (ddof=1).
RollingStd(x, w) ==
    Series([i \in 1..Len(x) |->
              IF i < w THEN NaN
              ELSE LET m == FDivCount(SumRange(x, i - w + 1, i), w)
                   IN  FSqrt(FDivCount(SumSqDev(x, m, i - w + 1, i), w - 1))])

\* One step of the recursive exponential average, alpha = 2/(span+1):
\* y[t] = alpha*x[t] + (1-alpha)*y[t-1].  A NaN observation carries the
\* previous value forward; a NaN previous value restarts from x[t].  (The
\* reweighting pandas applies after a gap is left out: the closes of the
\* program hold no NaN.)
EwmNext(prev, xt, span) ==
    IF IsNaN(xt) THEN prev
    ELSE IF IsNaN(prev) THEN xt
    ELSE IF IsNum(xt) /\ IsNum(prev)
         THEN Num((2 * xt[2] + (span - 1) * prev[2]) \div (span + 1))
    ELSE FAdd(xt, prev)

\* The first i elements of x.ewm(span, adjust=False).mean(): y[0] = x[0].
RECURSIVE EwmUpTo(_, _, _)
EwmUpTo(x, span, i) ==
    IF i = 0 THEN << >>
    ELSE IF i = 1 THEN << x[1] >>
    ELSE LET y == EwmUpTo(x, span, i - 1)
         IN  Append(y, EwmNext(y[i - 1], x[i], span))

\* A plausible slip: an exponential average with a warm-up gap
\* (min_periods = span), as the rolling averages have.
EwmWarmUp(x, span) ==
    LET y == EwmUpTo(x, span, Len(x))
    IN  Series([i \in 1..Len(x) |-> IF i < span THEN NaN ELSE y[i]])

\* Series.ewm(span=span, adjust=False).mean().
Ewm(x, span) == EwmUpTo(x, span, Len(x))

(***************************************************************************)
(* DataFrames.                                                             *)
(***************************************************************************)
Frame(idx, close) == [index |-> idx, cols |-> ("Close" :> close)]

Col(f, name) == f.cols[name]

\* data[name] = s: the frame itself gains (or replaces) the column.
SetCol(f, name, s) == [f EXCEPT !.cols = (name :> s) @@ f.cols]

NRows(f) == Len(f.index)

NoLocals == [n \in {} |-> << >>]

SetLoc(l, name, s) == (name :> s) @@ l

(***************************************************************************)
(* calculate_technical_indicators, statement by statement.  A statement    *)
(* acts on m = [data |-> the frame, loc |-> the function's local names].   *)
(***************************************************************************)
\* delta = data['Close'].diff()
S25(m) == [m EXCEPT !.loc = SetLoc(m.loc, "delta", Diff(Col(m.data, "Close")))]

\* gain = (delta.where(delta > 0, 0)).rolling(window=14).mean()
S26(m) ==
    [m EXCEPT !.loc = SetLoc(m.loc, "gain",
                             RollingMean(WherePositive(m.loc["delta"]), RSI_WINDOW))]

\* loss = (-delta.where(delta < 0, 0)).rolling(window=14).mean()
S27(m) ==
    [m EXCEPT !.loc = SetLoc(m.loc, "loss",
                             RollingMean(SNeg(WhereNegative(m.loc["delta"])), RSI_WINDOW))]

\* rs = gain / loss
S28(m) == [m EXCEPT !.loc = SetLoc(m.loc, "rs", SDiv(m.loc["gain"], m.loc["loss"]))]

\* data['RSI'] = 100 - (100 / (1 + rs))
S29(m) ==
    [m EXCEPT !.data = SetCol(m.data, "RSI",
                 ScalarSubS(100, ScalarDivS(100, ScalarAddS(1, m.loc["rs"]))))]

\* exp1 = data['Close'].ewm(span=12, adjust=False).mean()
S32(m) == [m EXCEPT !.loc = SetLoc(m.loc, "exp1", Ewm(Col(m.data, "Close"), EMA_FAST))]

\* exp2 = data['Close'].ewm(span=26, adjust=False).mean()
S33(m) == [m EXCEPT !.loc = SetLoc(m.loc, "exp2", Ewm(Col(m.data, "Close"), EMA_SLOW))]

\* data['MACD'] = exp1 - exp2
S34(m) == [m EXCEPT !.data = SetCol(m.data, "MACD", SSub(m.loc["exp1"], m.loc["exp2"]))]

\* data['Signal_Line'] = data['MACD'].ewm(span=9, adjust=False).mean()
S35(m) ==
    [m EXCEPT !.data = SetCol(m.data, "Signal_Line", Ewm(Col(m.data, "MACD"), EMA_SIGNAL))]

\* data['MACD_Histogram'] = data['MACD'] - data['Signal_Line']
S36(m) ==
    [m EXCEPT !.data = SetCol(m.data, "MACD_Histogram",
                              SSub(Col(m.data, "MACD"), Col(m.data, "Signal_Line")))]

\* A plausible slip: the smoothed series is also stored over the prices.
S39SmoothsClose(m) ==
    LET ma == RollingMean(Col(m.data, "Close"), BB_WINDOW)
    IN  [m EXCEPT !.data = SetCol(SetCol(m.data, "20MA", ma), "Close", ma)]

\* data['20MA'] = data['Close'].rolling(window=20).mean()
S39(m) ==
    [m EXCEPT !.data = SetCol(m.data, "20MA", RollingMean(Col(m.data, "Close"), BB_WINDOW))]

\* data['20STD'] = data['Close'].rolling(window=20).std()
S40(m) ==
    [m EXCEPT !.data = SetCol(m.data, "20STD", RollingStd(Col(m.data, "Close"), BB_WINDOW))]

\* data['Upper_Band'] = data['20MA'] + (data['20STD'] * 2)
S41(m) ==
    [m EXCEPT !.data = SetCol(m.data, "Upper_Band",
                 SAdd(Col(m.data, "20MA"), SMulScalar(Col(m.data, "20STD"), BB_WIDTH)))]

\* data['Lower_Band'] = data['20MA'] - (data['20STD'] * 2)
S42(m) ==
    [m EXCEPT !.data = SetCol(m.data, "Lower_Band",
                 SSub(Col(m.data, "20MA"), SMulScalar(Col(m.data, "20STD"), BB_WIDTH)))]

RSIFamily(m) == S29(S28(S27(S26(S25(m)))))
MACDFamily(m) == S36(S35(S34(S33(S32(m)))))
BollingerFamily(m) == S42(S41(S40(S39(m))))

\* The body of calculate_technical_indicators in program order; the value
\* is the frame as it stands at 'return data'.
calculate_technical_indicators(f) ==
    BollingerFamily(MACDFamily(RSIFamily([data |-> f, loc |-> NoLocals]))).data

IndicatorColumns ==
    {"RSI", "MACD", "Signal_Line", "MACD_Histogram",
     "20MA", "20STD", "Upper_Band", "Lower_Band"}

\* Heap addresses: the frame stock.history returned, and the frame the
\* boolean indexing of line 61 creates.
RAW == 1
FILTERED == 2

\* A plausible variant: the function works on data.copy(), a fresh object,
\* and returns that.
CalcCallOnCopy(heap, ref) ==
    LET fresh == CHOOSE r \in 1..(Cardinality(DOMAIN heap) + 1) : r \notin DOMAIN heap
    IN  [heap |-> (fresh :> calculate_technical_indicators(heap[ref])) @@ heap,
         ret |-> fresh]

\* The call calculate_technical_indicators(data) on the heap: the columns
\* are assigned on the object passed in, and that object is returned.
CalcCall(heap, ref) ==
    [heap |-> [heap EXCEPT ![ref] = calculate_technical_indicators(heap[ref])], ret |-> ref]

(***************************************************************************)
(* fetch_stock_data: the business-day filter of line 61.                   *)
(***************************************************************************)
IsWeekend(d) == d % 7 \in {5, 6}

\* pd.date_range(first, last, freq='B'): the Mondays to Fridays from first
\* to last; 'B' knows no holiday calendar.
BusinessDayRange(first, last) == {d \in first..last : ~IsWeekend(d)}

\* The positions i..Len(idx) of idx whose date is in S, in order.
RECURSIVE PositionsIn(_, _, _)
PositionsIn(idx, S, i) ==
    IF i > Len(idx) THEN << >>
    ELSE IF idx[i] \in S THEN << i >> \o PositionsIn(idx, S, i + 1)
    ELSE PositionsIn(idx, S, i + 1)

\* data[mask]: a new frame holding the rows at the positions pos.
TakeRows(f, pos) ==
    [index |-> Series([k \in 1..Len(pos) |-> f.index[pos[k]]]),
     cols  |-> [c \in DOMAIN f.cols |->
                   Series([k \in 1..Len(pos) |-> f.cols[c][pos[k]]])]]

\* data[data.index.isin(pd.date_range(data.index[0], data.index[-1], freq='B'))]
\* for a frame with at least one row.
NormalizeFrame(f) ==
    TakeRows(f, PositionsIn(f.index,
                            BusinessDayRange(f.index[1], f.index[NRows(f)]), 1))

(***************************************************************************)
(* plot_stock_data: the traces handed to the figure.                       *)
(***************************************************************************)
MAName(w) == IF w = 50 THEN "50 Day MA" ELSE "252 Day MA"

\* A plausible slip: 'if len(data) > window'.
MovingAverageTracesStrict(f) ==
    LET ws == {w \in MA_WINDOWS : NRows(f) > w}
    IN  [name \in {MAName(w) : w \in ws} |->
            RollingMean(Col(f, "Close"), CHOOSE w \in ws : MAName(w) = name)]

\* for window in (50, 252): if len(data) >= window: add the trace
\* '<window> Day MA' = data['Close'].rolling(window=window).mean()
MovingAverageTraces(f) ==
    LET ws == {w \in MA_WINDOWS : NRows(f) >= w}
    IN  [name \in {MAName(w) : w \in ws} |->
            RollingMean(Col(f, "Close"), CHOOSE w \in ws : MAName(w) = name)]

\* The traces of the figure that are built from the modelled columns.
plot_stock_data(f) ==
    MovingAverageTraces(f)
    @@ [name \in {"OHLC", "Upper BB", "Lower BB", "RSI", "MACD", "Signal Line",
                  "MACD Histogram"} |->
           CASE name = "OHLC" -> Col(f, "Close")
             [] name = "Upper BB" -> Col(f, "Upper_Band")
             [] name = "Lower BB" -> Col(f, "Lower_Band")
             [] name = "RSI" -> Col(f, "RSI")
             [] name = "MACD" -> Col(f, "MACD")
             [] name = "Signal Line" -> Col(f, "Signal_Line")
             [] name = "MACD Histogram" -> Col(f, "MACD_Histogram")]

NoFigure == [n \in {} |-> << >>]

(***************************************************************************)
(* __main__: the text of the prompt.  A string is a sequence of            *)
(* characters; "i_dotless" stands for U+0131, whose upper case is "I".     *)
(***************************************************************************)
UpperChar(c) ==
    CASE c = "q" -> "Q" [] c = "u" -> "U" [] c = "i" -> "I" [] c = "t" -> "T"
      [] c = "a" -> "A" [] c = "i_dotless" -> "I" [] OTHER -> c

LowerChar(c) ==
    CASE c = "Q" -> "q" [] c = "U" -> "u" [] c = "I" -> "i" [] c = "T" -> "t"
      [] c = "A" -> "a" [] OTHER -> c

Upper(s) == Series([i \in 1..Len(s) |-> UpperChar(s[i])])
Lower(s) == Series([i \in 1..Len(s) |-> LowerChar(s[i])])

IsSpace(c) == c = " "

RECURSIVE LStrip(_)
LStrip(s) == IF s # << >> /\ IsSpace(Head(s)) THEN LStrip(Tail(s)) ELSE s

RECURSIVE RStrip(_)
RStrip(s) ==
    IF s # << >> /\ IsSpace(s[Len(s)]) THEN RStrip(SubSeq(s, 1, Len(s) - 1)) ELSE s

\* str.strip()
Strip(s) == RStrip(LStrip(s))

QuitWords == { <<"q">>, <<"q", "u", "i", "t">> }

\* A plausible slip: the upper-cased ticker compared without .lower().
IsQuitCmdNoLower(t) == t \in QuitWords

\* ticker.lower() in ['q', 'quit']
IsQuitCmd(t) == Lower(t) \in QuitWords

(***************************************************************************)
(* Inputs.                                                                 *)
(***************************************************************************)
\* What the user may type at the prompt.
Lines ==
    { <<"q">>, <<"Q">>, <<" ", "Q", "u", "I", "t", " ">>,
      <<"q", "u", "i_dotless", "t">>,
      <<"q", " ", "q">>, <<"a", "a">>, << >> }

\* Days of the model's calendar that are holidays (both are weekdays).
Holidays == {9, 25}

IsTradingDay(d) == ~IsWeekend(d) /\ d \notin Holidays

DateModes == {"calendar", "weekdays", "trading"}

Admits(mode, d) ==
    CASE mode = "calendar" -> TRUE
      [] mode = "weekdays" -> ~IsWeekend(d)
      [] mode = "trading" -> IsTradingDay(d)

\* The first n days from d on that the mode admits.
RECURSIVE DatesFrom(_, _, _)
DatesFrom(mode, d, n) ==
    IF n = 0 THEN << >>
    ELSE IF Admits(mode, d) THEN << d >> \o DatesFrom(mode, d + 1, n - 1)
    ELSE DatesFrom(mode, d + 1, n)

Deltas == {-1, 0, 1}

\* n closes from BasePrice on whose successive changes alternate a, b, a, ...
CloseSeries(n, a, b) ==
    Series([i \in 1..n |-> FromInt(BasePrice + a * (i \div 2) + b * ((i - 1) \div 2))])

RawFrame(mode, start, n, a, b) == Frame(DatesFrom(mode, start, n), CloseSeries(n, a, b))

\* The raw series stock.history may return: dated rows, strictly increasing
\* by date, positive closes.
RawInputs ==
    { RawFrame(mode, start, n, a, b) :
        mode \in DateModes, start \in 0..MaxStart, n \in 0..MaxLen,
        a \in Deltas, b \in Deltas }

(***************************************************************************)
(* The program: __main__ (lines 237-265) calling fetch_stock_data and      *)
(* plot_stock_data.  pc is the position of the single thread of control.   *)
(***************************************************************************)
NoProgress == [rsi |-> 0, macd |-> 0, bb |-> 0]

NoHeap == [r \in {} |-> << >>]

Init ==
    /\ pc = "prompt"
    /\ line = << >>
    /\ ticker = << >>
    /\ frames = NoHeap
    /\ data = 0
    /\ out = "none"
    /\ fig = NoFigure
    /\ exc = "none"
    /\ loc = NoLocals
    /\ fam = NoProgress

\* Lines 239-248: print the menu, read a line; quit on 'q' or 'quit', else
\* go on to fetch.  out is the last message printed.
\* The frame and figure of the previous round are dropped here: nothing
\* reads them again (data is reassigned at line 251 before any use, and the
\* figure is local to plot_stock_data).
Prompt ==
    /\ pc = "prompt"
    /\ \E l \in Lines :
         /\ line' = l
         /\ ticker' = Upper(Strip(l))
         /\ IF IsQuitCmd(ticker')
            THEN pc' = "done" /\ out' = "bye"
            ELSE pc' = "history" /\ out' = "menu"
    /\ frames' = NoHeap
    /\ data' = 0
    /\ fig' = NoFigure
    /\ UNCHANGED <<exc, loc, fam>>

\* Lines 57-58: the supplier returns a raw series, or the request fails.
\* frames[RAW] stays in the heap as the record of what was returned.
History ==
    /\ pc = "history"
    /\ \/ \E r \in RawInputs :
            /\ frames' = (RAW :> r)
            /\ data' = RAW
            /\ pc' = "filter"
            /\ exc' = exc
       \/ /\ exc' = "ConnectionError"
          /\ pc' = "except"
          /\ UNCHANGED <<frames, data>>
    /\ UNCHANGED <<line, ticker, out, fig, loc, fam>>

\* Line 61: data.index[0] raises IndexError on a frame without rows;
\* otherwise data is rebound to the filtered frame, a new object.
Filter ==
    /\ pc = "filter"
    /\ IF NRows(frames[data]) = 0
       THEN /\ exc' = "IndexError"
            /\ pc' = "except"
            /\ UNCHANGED <<frames, data>>
       ELSE /\ frames' = (FILTERED :> NormalizeFrame(frames[data])) @@ frames
            /\ data' = FILTERED
            /\ pc' = "calc"
            /\ exc' = exc
    /\ UNCHANGED <<line, ticker, out, fig, loc, fam>>

\* Lines 64-66 and 251: data = calculate_technical_indicators(data), returned
\* to the caller.
Calc ==
    /\ pc = "calc"
    /\ LET r == CalcCall(frames, data)
       IN  /\ frames' = r.heap
           /\ data' = r.ret
    /\ pc' = "check"
    /\ UNCHANGED <<line, ticker, out, fig, exc, loc, fam>>

\* Lines 252-258: the 'no data' branch, or the report of what was fetched.
Check ==
    /\ pc = "check"
    /\ IF NRows(frames[data]) = 0
       THEN pc' = "prompt" /\ out' = "nodata"
       ELSE pc' = "plot" /\ out' = "fetched"
    /\ UNCHANGED <<line, ticker, frames, data, fig, exc, loc, fam>>

\* Line 261: plot_stock_data builds and shows the figure, or rendering fails.
Plot ==
    /\ pc = "plot"
    /\ \/ /\ fig' = plot_stock_data(frames[data])
          /\ pc' = "prompt"
          /\ exc' = exc
       \/ /\ exc' = "RenderError"
          /\ pc' = "except"
          /\ fig' = fig
    /\ UNCHANGED <<line, ticker, frames, data, out, loc, fam>>

\* Lines 263-265: except Exception: report and go round the loop again.
Except ==
    /\ pc = "except"
    /\ out' = "error"
    /\ exc' = "none"
    /\ pc' = "prompt"
    /\ UNCHANGED <<line, ticker, frames, data, fig, loc, fam>>

Next == Prompt \/ History \/ Filter \/ Calc \/ Check \/ Plot \/ Except

Spec == Init /\ [][Next]_vars

(***************************************************************************)
(* The moving averages of plot_stock_data (lines 145-155) applied to       *)
(* series long enough for both windows.                                    *)
(***************************************************************************)
MAShapes == { <<1, 1>>, <<1, 0>>, <<0, 0>> }

\* The k-th weekday counted from Monday, day 0.
NthWeekday(k) == 7 * ((k - 1) \div 5) + ((k - 1) % 5)

LongFrame(n, a, b) == Frame(Series([k \in 1..n |-> NthWeekday(k)]), CloseSeries(n, a, b))

InitMA ==
    /\ pc = "ma"
    /\ line = << >>
    /\ ticker = << >>
    /\ \E n \in 0..MaxLenMA, s \in MAShapes :
         frames = (FILTERED :> LongFrame(n, s[1], s[2]))
    /\ data = FILTERED
    /\ out = "none"
    /\ fig = NoFigure
    /\ exc = "none"
    /\ loc = NoLocals
    /\ fam = NoProgress

MovingAverages ==
    /\ pc = "ma"
    /\ fig' = MovingAverageTraces(frames[data])
    /\ pc' = "ma_done"
    /\ UNCHANGED <<line, ticker, frames, data, out, exc, loc, fam>>

NextMA == MovingAverages

SpecMA == InitMA /\ [][NextMA]_vars

(***************************************************************************)
(* The three indicator families of calculate_technical_indicators run as   *)
(* three tasks whose statements interleave freely on one frame.  The       *)
(* locals of the function are loc; fam counts the statements each family   *)
(* has executed.                                                           *)
(***************************************************************************)
RSIStatement(k, m) ==
    CASE k = 1 -> S25(m) [] k = 2 -> S26(m) [] k = 3 -> S27(m)
      [] k = 4 -> S28(m) [] k = 5 -> S29(m)

MACDStatement(k, m) ==
    CASE k = 1 -> S32(m) [] k = 2 -> S33(m) [] k = 3 -> S34(m)
      [] k = 4 -> S35(m) [] k = 5 -> S36(m)

BollingerStatement(k, m) ==
    CASE k = 1 -> S39(m) [] k = 2 -> S40(m) [] k = 3 -> S41(m) [] k = 4 -> S42(m)

FamilyLength == [rsi |-> 5, macd |-> 5, bb |-> 4]

ParInputs ==
    { RawFrame("weekdays", 0, n, a, b) : n \in 0..MaxLen, a \in Deltas, b \in Deltas }

InitPar ==
    /\ pc = "par"
    /\ line = << >>
    /\ ticker = << >>
    /\ \E r \in ParInputs : frames = (RAW :> r) @@ (FILTERED :> r)
    /\ data = FILTERED
    /\ out = "none"
    /\ fig = NoFigure
    /\ exc = "none"
    /\ loc = NoLocals
    /\ fam = NoProgress

Machine == [data |-> frames[data], loc |-> loc]

StepTo(m, f) ==
    /\ frames' = [frames EXCEPT ![data] = m.data]
    /\ loc' = m.loc
    /\ fam' = [fam EXCEPT ![f] = @ + 1]
    /\ UNCHANGED <<pc, line, ticker, data, out, fig, exc>>

StepRSI ==
    /\ pc = "par"
    /\ fam.rsi < FamilyLength.rsi
    /\ StepTo(RSIStatement(fam.rsi + 1, Machine), "rsi")

StepMACD ==
    /\ pc = "par"
    /\ fam.macd < FamilyLength.macd
    /\ StepTo(MACDStatement(fam.macd + 1, Machine), "macd")

StepBollinger ==
    /\ pc = "par"
    /\ fam.bb < FamilyLength.bb
    /\ StepTo(BollingerStatement(fam.bb + 1, Machine), "bb")

NextPar == StepRSI \/ StepMACD \/ StepBollinger

SpecPar == InitPar /\ [][NextPar]_vars

(***************************************************************************)
(* Properties.                                                             *)
(***************************************************************************)
\* The frame returned by the supplier and the frame under computation.
Raw == frames[RAW]
Cur == frames[FILTERED]
N == NRows(Cur)

\* calculate_technical_indicators has returned in this round.
HasIndicators ==
    /\ pc \in {"check", "plot", "prompt", "except"}
    /\ FILTERED \in DOMAIN frames
    /\ IndicatorColumns \subseteq DOMAIN Cur.cols

\* No close of the 14 changes ending at row i is below its predecessor, that
\* is, the 14-period average loss at row i is zero (i >= 15).
NoLossInWindow(c, i) == \A j \in (i - RSI_WINDOW + 1)..i : c[j][2] >= c[j - 1][2]

\* The rows of a frame as (date, close) pairs.
RowsOf(f) == [k \in 1..NRows(f) |-> << f.index[k], f.cols["Close"][k] >>]

OnTradingDay(row) == IsTradingDay(row[1])

\* C1: when the fetched raw series is empty, no error is raised and the
\* 'no data' branch is taken rather than the exception handler.
C1_EmptyFetchTakesNoDataBranch ==
    (RAW \in DOMAIN frames /\ NRows(Raw) = 0)
        => /\ pc # "except"
           /\ exc = "none"
           /\ (pc = "prompt" => out = "nodata")

\* C2: at every index from 14 on where the 14-period average loss is zero,
\* RSI is exactly 100, also when the average gain is zero.
C2_ZeroLossRSIIsHundred ==
    HasIndicators =>
        \A i \in (RSI_WINDOW + 1)..N :
            NoLossInWindow(Col(Cur, "Close"), i) => Col(Cur, "RSI")[i] = FromInt(100)

\* C3: RSI is undefined at each of the first 14 observations (indices 0
\* through 13).
C3_RSIUndefinedFirst14 ==
    HasIndicators =>
        \A i \in 1..N : i <= RSI_WINDOW => IsNaN(Col(Cur, "RSI")[i])

RECURSIVE ValueSum(_, _, _)
ValueSum(c, lo, hi) ==
    IF lo > hi THEN 0
    ELSE IF lo = hi THEN c[lo][2]
    ELSE ValueSum(c, lo, (lo + hi) \div 2) + ValueSum(c, (lo + hi) \div 2 + 1, hi)

\* C5: for w in {50, 252} the '<w> Day MA' trace is emitted iff the series has
\* at least w rows; when emitted it is undefined before index w-1 and from
\* there on the mean of the w closes ending at the index (to the precision
\* of the fixed-point representation).
C5_MovingAverages ==
    pc = "ma_done" =>
        \A w \in MA_WINDOWS :
            /\ MAName(w) \in DOMAIN fig <=> N >= w
            /\ MAName(w) \in DOMAIN fig =>
                 /\ Len(fig[MAName(w)]) = N
                 /\ \A i \in 1..N :
                      LET v == fig[MAName(w)][i]
                          s == ValueSum(Col(Cur, "Close"), i - w + 1, i)
                      IN  IF i < w THEN IsNaN(v)
                          ELSE IsNum(v) /\ w * v[2] <= s /\ s < w * v[2] + w

\* Both traces were emitted for a series longer than the longer window.
C5_Witness ==
    /\ pc = "ma_done"
    /\ N > 252
    /\ {"50 Day MA", "252 Day MA"} \subseteq DOMAIN fig
    /\ IsNum(fig["252 Day MA"][N])

\* C6: for a non-empty series MACD, Signal_Line and MACD_Histogram are
\* defined at every index, all three are 0 at index 0, and the histogram is
\* MACD minus the signal line at every index.
C6_MACDDefinedFromStart ==
    (HasIndicators /\ N >= 1) =>
        LET macd == Col(Cur, "MACD")
            sig  == Col(Cur, "Signal_Line")
            hist == Col(Cur, "MACD_Histogram")
        IN  /\ macd[1] = Num(0) /\ sig[1] = Num(0) /\ hist[1] = Num(0)
            /\ \A i \in 1..N :
                 /\ IsNum(macd[i]) /\ IsNum(sig[i]) /\ IsNum(hist[i])
                 /\ hist[i][2] = macd[i][2] - sig[i][2]

\* A series on which MACD and the histogram have moved away from 0.
C6_Witness ==
    /\ HasIndicators
    /\ N >= 2
    /\ Col(Cur, "MACD")[2] # Num(0)
    /\ Col(Cur, "MACD_Histogram")[N] # Num(0)

BandsUndefinedAt(i) ==
    /\ IsNaN(Col(Cur, "Upper_Band")[i])
    /\ IsNaN(Col(Cur, "Lower_Band")[i])
    /\ IsNaN(Col(Cur, "20MA")[i])

BandsDefinedAt(i) ==
    /\ IsNum(Col(Cur, "Upper_Band")[i])
    /\ IsNum(Col(Cur, "Lower_Band")[i])
    /\ IsNum(Col(Cur, "20MA")[i])

\* C7 as stated: the bands and the middle band are undefined at each of the
\* first 20 observations (indices 0 through 19).
C7_BandsUndefinedFirst20 ==
    HasIndicators => \A i \in 1..N : i <= BB_WINDOW => BandsUndefinedAt(i)

\* C7 as amended: the bands and the middle band are undefined at each of the
\* first 19 observations (indices 0 through 18) and defined from index 19,
\* the 20th observation, on; so a series shorter than 20 has no band value.
C7_BandsUndefinedFirst19 ==
    HasIndicators =>
        \A i \in 1..N :
            IF i <= BB_WINDOW - 1 THEN BandsUndefinedAt(i) ELSE BandsDefinedAt(i)

\* A series of at least 20 rows whose bands at index 19 are apart.
C7_Witness ==
    /\ HasIndicators
    /\ N >= BB_WINDOW
    /\ BandsDefinedAt(BB_WINDOW)
    /\ Col(Cur, "Upper_Band")[BB_WINDOW] # Col(Cur, "Lower_Band")[BB_WINDOW]

\* C8: the normalized series holds exactly the input rows dated on a valid
\* trading day (neither a weekend nor a holiday), in their original order.
C8_FilterKeepsExactlyTradingDays ==
    FILTERED \in DOMAIN frames => RowsOf(Cur) = SelectSeq(RowsOf(Raw), OnTradingDay)

\* C9: however the statements of the three families interleave, every
\* indicator column written so far, and the whole frame at the end, is what
\* the program's own order of the statements produces.
C9_OrderIndependent ==
    pc = "par" =>
        LET seq == calculate_technical_indicators(Raw)
        IN  /\ \A c \in IndicatorColumns \cap DOMAIN Cur.cols :
                  Cur.cols[c] = seq.cols[c]
            /\ fam = FamilyLength => Cur = seq

\* The families have run in the reverse of the program's order: Bollinger
\* and MACD are complete and RSI has yet to write its column.
C9_Witness ==
    /\ pc = "par"
    /\ fam = [rsi |-> 4, macd |-> 5, bb |-> 4]
    /\ N >= BB_WINDOW
    /\ IsNum(Col(Cur, "Upper_Band")[N])
    /\ "RSI" \notin DOMAIN Cur.cols

\* The line, trimmed and compared without regard to case (both sides
\* upper-cased), is 'q' or 'quit'.
QuitInput(l) == Upper(Strip(l)) \in { Upper(w) : w \in QuitWords }

\* C10: an exception raised while fetching, computing or plotting goes to the
\* handler and from there back to the prompt; the program ends only from the
\* prompt, on a quit input, and then without any fetch; and a quit input
\* always ends it.
C10_LoopSurvivesExceptions ==
    [][/\ exc' # "none" => pc' = "except"
       /\ pc = "except" => pc' = "prompt"
       /\ pc' = "done" => (pc = "prompt" /\ QuitInput(line') /\ frames' = NoHeap)
       /\ (pc = "prompt" /\ QuitInput(line')) => pc' = "done"]_vars

\* An exception was handled and control is back at the prompt.
C10_Witness == pc = "prompt" /\ out = "error"

=============================================================================
